---- MODULE Spec2Model ----
(***************************************************************************)
(* Schedule API of Gaarge/kolledj (src/docker/api/main.py,                 *)
(* src/docker/api/sql_queries.py): group-name normalisation, week parity,  *)
(* the three-tier merge of base rows, weekly edits and once edits, the     *)
(* teacher view and the edit mutations.                                    *)
(*                                                                         *)
(* Representation.  A text (Python str, SQL TEXT) is a sequence of Unicode *)
(* code points, so "" is <<>>.  A nullable value is <<>> (None / NULL) or  *)
(* <<v>>.  A date string "YYYY-MM-DD" is the triple <<y, m, d>> of its     *)
(* three numbers; a datetime.date / SQL DATE is its proleptic Gregorian    *)
(* ordinal.  A SQL TIME is <<h, m, s>>.                                    *)
(***************************************************************************)
EXTENDS Integers, Sequences, FiniteSets, TLC

VARIABLES
  nin,              \* SpecNorm: the text handed to the normalisation expression
  nout,             \* SpecNorm: what the expression returned (and on what)
  pdate,            \* SpecParity: the request's date string
  panchor,          \* SpecParity: the value of ODD_WEEK_ANCHOR
  pres,             \* SpecParity: the parity one code site computed
  anchor,           \* the environment's ODD_WEEK_ANCHOR (Null when unset)
  weekday_schedule, \* table weekday_schedule: the base rows
  weekly_edits,     \* table weekly_edits (its id column is read by no query
                    \* and is left out)
  once_edits,       \* table once_edits (likewise)
  served,           \* number of requests answered so far
  resp,             \* the last request and its response
  notice,           \* what the last request handed to tg_send
  txn,              \* SpecTxn: each worker's request, its place in the handler
                    \* and its open transaction
  commits,          \* SpecTxn: the workers in the order their writes committed
  rd                \* SpecRead: the place of one get_schedule call among its
                    \* awaits, the rows it has fetched, and the table contents
                    \* that have existed since it was called

normVars == <<nin, nout>>
parVars == <<pdate, panchor, pres>>
dbVars == <<weekday_schedule, weekly_edits, once_edits>>
apiVars == <<anchor, dbVars, served, resp, notice>>
txnVars == <<txn, commits>>
readVars == <<rd>>
vars == <<normVars, parVars, apiVars, txnVars, readVars>>

---------------------------------------------------------------------------
(* Texts *)

Null == <<>>
Some(v) == <<v>>
IsNull(o) == o = <<>>

\* Python truthiness of an optional text: None and "" are falsy.
Truthy(o) == o # <<>> /\ o[1] # <<>>

\* Python `x or ""` on an optional text.
OrEmpty(o) == IF Truthy(o) THEN o[1] ELSE <<>>

RECURSIVE IndexOf(_, _, _)
\* 1-based position of c in s at or after i, 0 when absent.
IndexOf(c, s, i) ==
  IF i > Len(s) THEN 0 ELSE IF s[i] = c THEN i ELSE IndexOf(c, s, i + 1)

---------------------------------------------------------------------------
(* Identity normaliser: regexp_replace(lower(translate(x, from, to)), class, '', 'g') *)

\* 'ABCEHKMOPTXYabcehkmoptxy'
TranslateFrom ==
  <<65, 66, 67, 69, 72, 75, 77, 79, 80, 84, 88, 89,
    97, 98, 99, 101, 104, 107, 109, 111, 112, 116, 120, 121>>

\* the Cyrillic look-alikes, upper case then lower case
TranslateTo ==
  <<1040, 1042, 1057, 1045, 1053, 1050, 1052, 1054, 1056, 1058, 1061, 1059,
    1072, 1074, 1089, 1077, 1085, 1082, 1084, 1086, 1088, 1090, 1093, 1091>>

\* SQL translate(): a character of `from` becomes the character of `to` at the
\* same position; every other character is kept.
TranslateChar(c) ==
  LET i == IndexOf(c, TranslateFrom, 1) IN IF i = 0 THEN c ELSE TranslateTo[i]

RECURSIVE Translate(_)
Translate(s) == IF s = <<>> THEN <<>> ELSE <<TranslateChar(Head(s))>> \o Translate(Tail(s))

\* SQL lower() / Python str.lower() under a UTF-8 locale (towlower): A-Z, the
\* Cyrillic capitals, and the KELVIN SIGN U+212A whose lower case is ASCII k.
LowerChar(c) ==
  IF c \in 65..90 THEN c + 32
  ELSE IF c \in 1040..1071 THEN c + 32
  ELSE IF c \in 1024..1039 THEN c + 80
  ELSE IF c = 8490 THEN 107
  ELSE c

RECURSIVE Lower(_)
Lower(s) == IF s = <<>> THEN <<>> ELSE <<LowerChar(Head(s))>> \o Lower(Tail(s))

\* the bracket expression [0-9a-zа-яё] (the regex negates it)
InKeepClass(c) ==
  \/ c \in 48..57
  \/ c \in 97..122
  \/ c \in 1072..1103
  \/ c = 1105

\* regexp_replace(s, '[^0-9a-zа-яё]+', '', 'g') without the 'g' flag: only the
\* first run of other characters is removed.
RECURSIVE RegexpReplaceFirst(_)
RegexpReplaceFirst(s) ==
  LET RECURSIVE DropRun(_)
      DropRun(t) == IF t # <<>> /\ ~InKeepClass(Head(t)) THEN DropRun(Tail(t)) ELSE t
  IN IF s = <<>> THEN <<>>
     ELSE IF InKeepClass(Head(s)) THEN <<Head(s)>> \o RegexpReplaceFirst(Tail(s))
     ELSE DropRun(s)

\* regexp_replace(s, '[^0-9a-zа-яё]+', '', 'g'): every run of characters
\* outside the class is replaced by nothing.
RECURSIVE RegexpReplaceAll(_)
RegexpReplaceAll(s) ==
  IF s = <<>> THEN <<>>
  ELSE IF InKeepClass(Head(s)) THEN <<Head(s)>> \o RegexpReplaceAll(Tail(s))
  ELSE RegexpReplaceAll(Tail(s))

NormalizeGroup(s) == RegexpReplaceAll(Lower(Translate(s)))

---------------------------------------------------------------------------
(* SpecNorm: the normalisation expression on bounded texts *)

MaxLen == 3

\* space - 1 A I K a i k, Cyrillic Ё А а ё, KELVIN SIGN
NormAlphabet == {32, 45, 49, 65, 73, 75, 97, 105, 107, 1025, 1040, 1072, 1105, 8490}

RECURSIVE TextsUpTo(_, _)
TextsUpTo(A, n) ==
  IF n = 0 THEN {<<>>}
  ELSE LET T == TextsUpTo(A, n - 1)
       IN T \cup {<<c>> \o t : c \in A, t \in {u \in T : Len(u) = n - 1}}

\* the server's variables while only an expression is evaluated
ApiIdle ==
  /\ anchor = <<>>
  /\ weekday_schedule = {} /\ weekly_edits = {} /\ once_edits = {}
  /\ served = 0
  /\ resp = [op |-> "none"]
  /\ notice = [kind |-> "none"]

\* no worker is serving a request step by step, no read is followed await by await
TxnIdle == txn = <<>> /\ commits = <<>> /\ rd = <<>>

\* the parity sites have computed nothing
ParityIdle == pdate = <<>> /\ panchor = <<>> /\ pres = [site |-> "none"]

\* the normalisation expression has been given nothing
NormIdle == nin = <<>> /\ nout = [stage |-> "none", arg |-> <<>>, val |-> <<>>]

NormInit ==
  /\ nin \in TextsUpTo(NormAlphabet, MaxLen)
  /\ nout = [stage |-> "none", arg |-> <<>>, val |-> <<>>]
  /\ ParityIdle
  /\ ApiIdle
  /\ TxnIdle

\* the expression evaluated on a stored or requested group name
NormalizeOnce ==
  /\ nout.stage = "none"
  /\ nout' = [stage |-> "once", arg |-> nin, val |-> NormalizeGroup(nin)]
  /\ UNCHANGED <<nin, parVars, apiVars, txnVars, readVars>>

\* the expression evaluated on a name that is already a normalised name
NormalizeTwice ==
  /\ nout.stage = "once"
  /\ nout' = [stage |-> "twice", arg |-> nout.val, val |-> NormalizeGroup(nout.val)]
  /\ UNCHANGED <<nin, parVars, apiVars, txnVars, readVars>>

NormNext == NormalizeOnce \/ NormalizeTwice

SpecNorm == NormInit /\ [][NormNext]_vars

---------------------------------------------------------------------------
(* Calendar: datetime.date as the code uses it *)

IsLeap(y) == y % 4 = 0 /\ (y % 100 # 0 \/ y % 400 = 0)

DaysInMonth(y, m) ==
  IF m = 2 THEN (IF IsLeap(y) THEN 29 ELSE 28)
  ELSE IF m \in {4, 6, 9, 11} THEN 30 ELSE 31

DaysBeforeYear(y) ==
  LET p == y - 1 IN p * 365 + (p \div 4) - (p \div 100) + (p \div 400)

RECURSIVE DaysBeforeMonth(_, _)
DaysBeforeMonth(y, m) ==
  IF m <= 1 THEN 0 ELSE DaysBeforeMonth(y, m - 1) + DaysInMonth(y, m - 1)

Ymd2Ord(y, m, d) == DaysBeforeYear(y) + DaysBeforeMonth(y, m) + d

\* Date.fromisoformat(s) succeeds: s is a year-month-day with the month in
\* 1..12 and the day in the month; anything else raises ValueError.
DateValid(s) ==
  /\ Len(s) = 3
  /\ s[1] \in 1..9999
  /\ s[2] \in 1..12
  /\ s[3] \in 1..DaysInMonth(s[1], s[2])

\* Date.fromisoformat(s) of a valid s, as an ordinal
FromIsoformat(s) == Ymd2Ord(s[1], s[2], s[3])

YearOf(ord) ==
  CHOOSE y \in (ord \div 366)..((ord \div 365) + 1) :
    DaysBeforeYear(y) < ord /\ ord <= DaysBeforeYear(y + 1)

\* d.isoformat(): the date string of an ordinal
Isoformat(ord) ==
  LET y == YearOf(ord)
      n == ord - DaysBeforeYear(y)
      m == CHOOSE k \in 1..12 :
             DaysBeforeMonth(y, k) < n /\ n <= DaysBeforeMonth(y, k) + DaysInMonth(y, k)
  IN <<y, m, n - DaysBeforeMonth(y, m)>>

\* d.isoweekday(): Monday = 1 .. Sunday = 7 (ordinal 1 is a Monday)
IsoWeekday(ord) == IF ord % 7 = 0 THEN 7 ELSE ord % 7

\* the Monday of ISO week 1 of a year: the week holding the year's first Thursday
IsoWeek1Monday(y) ==
  LET firstday == Ymd2Ord(y, 1, 1)
      firstweekday == (firstday + 6) % 7
      monday == firstday - firstweekday
  IN IF firstweekday > 3 THEN monday + 7 ELSE monday

\* d.isocalendar()[1]: the ISO week number
IsoWeek(ord) ==
  LET y == YearOf(ord)
      week == (ord - IsoWeek1Monday(y)) \div 7
  IN IF week < 0 THEN ((ord - IsoWeek1Monday(y - 1)) \div 7) + 1
     ELSE IF week >= 52 /\ ord >= IsoWeek1Monday(y + 1) THEN 1
     ELSE week + 1

---------------------------------------------------------------------------
(* Week parity, at each place that computes it.  d is a date (ordinal),     *)
(* anchor_str the value of ODD_WEEK_ANCHOR: Null when unset, else the text. *)
(* The result is [status, parity]: status "ok" with the parity, "none" for  *)
(* a returned None, "raise" for an exception that leaves the function.      *)

ParityOk(p) == [status |-> "ok", parity |-> p]

\* (delta_days // 7) % 2 with a division that truncates toward zero
TruncDiv(a, b) == IF a >= 0 THEN a \div b ELSE -((-a) \div b)

get_schedule_parity_trunc(d, anchor_str) ==
  IF Truthy(anchor_str)
  THEN IF DateValid(anchor_str[1])
       THEN LET delta_days == d - FromIsoformat(anchor_str[1])
            IN ParityOk(IF TruncDiv(delta_days, 7) % 2 = 0 THEN "odd" ELSE "even")
       ELSE ParityOk(IF IsoWeek(d) % 2 = 0 THEN "even" ELSE "odd")
  ELSE ParityOk(IF IsoWeek(d) % 2 = 0 THEN "even" ELSE "odd")

\* get_schedule
get_schedule_parity(d, anchor_str) ==
  IF Truthy(anchor_str)
  THEN IF DateValid(anchor_str[1])
       THEN LET delta_days == d - FromIsoformat(anchor_str[1])
            IN ParityOk(IF (delta_days \div 7) % 2 = 0 THEN "odd" ELSE "even")
       ELSE ParityOk(IF IsoWeek(d) % 2 = 0 THEN "even" ELSE "odd")
  ELSE ParityOk(IF IsoWeek(d) % 2 = 0 THEN "even" ELSE "odd")

\* get_schedule_by_teacher
get_schedule_by_teacher_parity(d, anchor_str) ==
  IF Truthy(anchor_str)
  THEN IF DateValid(anchor_str[1])
       THEN LET delta_days == d - FromIsoformat(anchor_str[1])
            IN ParityOk(IF (delta_days \div 7) % 2 = 0 THEN "odd" ELSE "even")
       ELSE ParityOk(IF IsoWeek(d) % 2 = 0 THEN "even" ELSE "odd")
  ELSE ParityOk(IF IsoWeek(d) % 2 = 0 THEN "even" ELSE "odd")

\* week_overview, for one day d of the week
week_overview_parity(d, anchor_str) ==
  IF Truthy(anchor_str)
  THEN IF DateValid(anchor_str[1])
       THEN LET delta_days == d - FromIsoformat(anchor_str[1])
            IN ParityOk(IF (delta_days \div 7) % 2 = 0 THEN "odd" ELSE "even")
       ELSE ParityOk(IF IsoWeek(d) % 2 = 0 THEN "even" ELSE "odd")
  ELSE ParityOk(IF IsoWeek(d) % 2 = 0 THEN "even" ELSE "odd")

\* sql_queries.parity_for: None without an anchor; the anchor is parsed
\* outside any try, so an unparsable anchor raises ValueError.
parity_for(date_obj, anchor_str) ==
  IF ~Truthy(anchor_str) THEN [status |-> "none", parity |-> ""]
  ELSE IF ~DateValid(anchor_str[1]) THEN [status |-> "raise", parity |-> ""]
  ELSE LET delta_days == date_obj - FromIsoformat(anchor_str[1])
       IN ParityOk(IF (delta_days \div 7) % 2 = 0 THEN "odd" ELSE "even")

---------------------------------------------------------------------------
(* SpecParity: each parity computation on bounded dates and anchors *)

ParityWeeks == 2

\* Mondays the checked dates lie around: 2021-01-04 (after ISO week 53 of
\* 2020), 2024-01-01 and 2024-12-30 (ISO week 1 of 2025)
ParityMondays == {Ymd2Ord(2021, 1, 4), Ymd2Ord(2024, 1, 1), Ymd2Ord(2024, 12, 30)}

ParityDates ==
  {Isoformat(o) : o \in UNION {(m - 7 * ParityWeeks)..(m + 7 * ParityWeeks + 6) :
                                 m \in ParityMondays}}
    \cup {<<2024, 2, 30>>, <<2024, 13, 1>>}

\* unset, set to "", unparsable, a Monday, a Wednesday
ParityAnchors ==
  {Null, Some(<<>>), Some(<<2024, 2, 30>>), Some(<<2024, 1, 1>>), Some(<<2024, 1, 3>>)}

NoParity == [site |-> "none", ord |-> 0, status |-> "none", parity |-> ""]

ParityResult(site, d, r) ==
  [site |-> site, ord |-> d, status |-> r.status, parity |-> r.parity]

ParityInit ==
  /\ pdate \in ParityDates
  /\ panchor \in ParityAnchors
  /\ pres = NoParity
  /\ NormIdle
  /\ ApiIdle
  /\ TxnIdle

\* GET /api/schedule up to the parity: a bad date is answered 400 first
GetScheduleParity ==
  /\ pres.site = "none"
  /\ pres' = IF DateValid(pdate)
             THEN LET d == FromIsoformat(pdate)
                  IN ParityResult("get_schedule", d, get_schedule_parity(d, panchor))
             ELSE [NoParity EXCEPT !.site = "get_schedule", !.status = "400"]
  /\ UNCHANGED <<pdate, panchor, normVars, apiVars, txnVars, readVars>>

\* GET /api/schedule_by_teacher up to the parity
GetScheduleByTeacherParity ==
  /\ pres.site = "none"
  /\ pres' = IF DateValid(pdate)
             THEN LET d == FromIsoformat(pdate)
                  IN ParityResult("get_schedule_by_teacher", d,
                                  get_schedule_by_teacher_parity(d, panchor))
             ELSE [NoParity EXCEPT !.site = "get_schedule_by_teacher", !.status = "400"]
  /\ UNCHANGED <<pdate, panchor, normVars, apiVars, txnVars, readVars>>

\* GET /api/week_overview: the parity of day i of the week starting at monday
WeekOverviewParity ==
  /\ pres.site = "none"
  /\ \E i \in 0..6 :
       pres' = IF DateValid(pdate)
               THEN LET d == FromIsoformat(pdate) + i
                    IN ParityResult("week_overview", d, week_overview_parity(d, panchor))
               ELSE [NoParity EXCEPT !.site = "week_overview", !.status = "400"]
  /\ UNCHANGED <<pdate, panchor, normVars, apiVars, txnVars, readVars>>

\* parity_for(date_obj, anchor_str) on a date object
ParityFor ==
  /\ pres.site = "none"
  /\ DateValid(pdate)
  /\ LET d == FromIsoformat(pdate)
     IN pres' = ParityResult("parity_for", d, parity_for(d, panchor))
  /\ UNCHANGED <<pdate, panchor, normVars, apiVars, txnVars, readVars>>

ParityNext ==
  GetScheduleParity \/ GetScheduleByTeacherParity \/ WeekOverviewParity \/ ParityFor

SpecParity == ParityInit /\ [][ParityNext]_vars

---------------------------------------------------------------------------
(* Python and SQL text functions the handlers use *)

\* str.isspace() characters below U+0100
PyWhitespace == {9, 10, 11, 12, 13, 28, 29, 30, 31, 32, 133, 160}

RECURSIVE StripLeft(_, _)
StripLeft(s, W) == IF s # <<>> /\ Head(s) \in W THEN StripLeft(Tail(s), W) ELSE s

RECURSIVE StripRight(_, _)
StripRight(s, W) ==
  IF s # <<>> /\ s[Len(s)] \in W THEN StripRight(SubSeq(s, 1, Len(s) - 1), W) ELSE s

\* Python s.strip(): all leading and trailing whitespace
PyStrip(s) == StripRight(StripLeft(s, PyWhitespace), PyWhitespace)

\* SQL trim(s): leading and trailing spaces only
SqlTrim(s) == StripRight(StripLeft(s, {32}), {32})

\* SQL COALESCE(x, dflt)
Coalesce(o, dflt) == IF IsNull(o) THEN dflt ELSE o[1]

\* Python `s or dflt` on a text
PyOr(t, dflt) == IF t = <<>> THEN dflt ELSE t

\* to_char(t, 'HH24:MI') of a TIME <<h, m, s>>
ToCharHHMI(t) ==
  <<48 + (t[1] \div 10), 48 + (t[1] % 10), 58, 48 + (t[2] \div 10), 48 + (t[2] % 10)>>

\* Python's order on str: by code point, a proper prefix first
RECURSIVE TextLess(_, _)
TextLess(a, b) ==
  IF b = <<>> THEN FALSE
  ELSE IF a = <<>> THEN TRUE
  ELSE IF Head(a) # Head(b) THEN Head(a) < Head(b)
  ELSE TextLess(Tail(a), Tail(b))

RECURSIVE Perms(_)
\* every order in which a query without ORDER BY can return the rows of S
Perms(S) ==
  IF S = {} THEN {<<>>}
  ELSE UNION {{<<x>> \o q : q \in Perms(S \ {x})} : x \in S}

---------------------------------------------------------------------------
(* merge_by_group_date *)

\* SELECT ... FROM weekday_schedule s WHERE normalised names equal AND weekday
\* AND week type, one output row of the select list
BaseSelect(s) ==
  [id |-> s.id, group_name |-> s.group_name, weekday |-> s.weekday,
   pair_number |-> s.pair_number,
   time_start |-> ToCharHHMI(s.time_start), time_end |-> ToCharHHMI(s.time_end),
   subject |-> Coalesce(s.subject, <<>>), teacher |-> Coalesce(s.teacher, <<>>),
   room |-> Coalesce(s.room, <<>>), week_type |-> s.week_type]

\* the WHERE clause (a conjunction: the cheap tests are written first)
BaseWhere(s, group, weekday, parity) ==
  /\ s.weekday = weekday
  /\ (s.week_type = "all" \/ s.week_type = parity)
  /\ NormalizeGroup(s.group_name) = NormalizeGroup(group)

\* the possible results of the base query: ORDER BY s.pair_number ASC
FetchBase(group, weekday, parity) ==
  LET rows == {s \in weekday_schedule : BaseWhere(s, group, weekday, parity)}
  IN {[i \in 1..Len(q) |-> BaseSelect(q[i])] :
        q \in {r \in Perms(rows) :
                 \A i \in 1..Len(r) : \A j \in i..Len(r) :
                    r[i].pair_number <= r[j].pair_number}}

EditSelect(e) ==
  [pair_number |-> e.pair_number, subject |-> e.subject, teacher |-> e.teacher,
   room |-> e.room, time_start |-> e.time_start, time_end |-> e.time_end,
   deleted |-> e.deleted]

\* the WHERE clause of the weekly_edits query without its week_type test
WeeklyWhereAnyWeek(e, group, weekday, parity) ==
  /\ e.group_name = group
  /\ e.day_of_week = weekday

\* the WHERE clause of the weekly_edits query with the group names compared
\* normalised, as the base query compares them
WeeklyWhereNormalised(e, group, weekday, parity) ==
  /\ e.day_of_week = weekday
  /\ (e.week_type = "all" \/ e.week_type = parity)
  /\ NormalizeGroup(e.group_name) = NormalizeGroup(group)

WeeklyWhere(e, group, weekday, parity) ==
  /\ e.group_name = group
  /\ e.day_of_week = weekday
  /\ (e.week_type = "all" \/ e.week_type = parity)

\* the possible results of the weekly_edits query (no ORDER BY)
FetchWeekly(group, weekday, parity) ==
  {[i \in 1..Len(q) |-> EditSelect(q[i])] :
     q \in Perms({e \in weekly_edits : WeeklyWhere(e, group, weekday, parity)})}

OnceWhere(e, group, d) == e.group_name = group /\ e.edit_date = d

\* the possible results of the once_edits query (no ORDER BY)
FetchOnce(group, d) ==
  {[i \in 1..Len(q) |-> EditSelect(q[i])] :
     q \in Perms({e \in once_edits : OnceWhere(e, group, d)})}

\* by_pair[p] = v
Put(by_pair, p, v) == (p :> v) @@ by_pair

RECURSIVE SeedBase(_, _)
\* for r in base_rows: by_pair[int(r["pair_number"])] = {...}
SeedBase(by_pair, base_rows) ==
  IF base_rows = <<>> THEN by_pair
  ELSE LET r == Head(base_rows)
       IN SeedBase(
            Put(by_pair, r.pair_number,
                [id |-> r.id, group_name |-> r.group_name, weekday |-> r.weekday,
                 pair_number |-> r.pair_number,
                 time_start |-> PyOr(r.time_start, <<>>),
                 time_end |-> PyOr(r.time_end, <<>>),
                 subject |-> PyOr(r.subject, <<>>),
                 teacher |-> PyOr(r.teacher, <<>>),
                 room |-> PyOr(r.room, <<>>),
                 week_type |-> r.week_type]),
            Tail(base_rows))

\* the default of by_pair.get(p, {...}) with the pair number as its id
PlaceholderPairId(group, weekday, p) ==
  [id |-> p, group_name |-> group, weekday |-> weekday, pair_number |-> p,
   time_start |-> <<>>, time_end |-> <<>>, subject |-> <<>>, teacher |-> <<>>,
   room |-> <<>>, week_type |-> "all"]

\* the default of by_pair.get(p, {...})
Placeholder(group, weekday, p) ==
  [id |-> 0, group_name |-> group, weekday |-> weekday, pair_number |-> p,
   time_start |-> <<>>, time_end |-> <<>>, subject |-> <<>>, teacher |-> <<>>,
   room |-> <<>>, week_type |-> "all"]

\* overlay's loop body with the test `if e["deleted"]` dropped: a deleted edit
\* is applied like any other
OverlayOneNoDelete(by_pair, e, group, weekday) ==
  LET p == e.pair_number
      prev == IF p \in DOMAIN by_pair THEN by_pair[p] ELSE Placeholder(group, weekday, p)
  IN Put(by_pair, p,
         [prev EXCEPT
            !.subject = IF Truthy(e.subject) THEN e.subject[1] ELSE @,
            !.teacher = IF Truthy(e.teacher) THEN e.teacher[1] ELSE @,
            !.room = IF Truthy(e.room) THEN e.room[1] ELSE @,
            !.time_start = IF Truthy(e.time_start) THEN e.time_start[1] ELSE @,
            !.time_end = IF Truthy(e.time_end) THEN e.time_end[1] ELSE @])

\* overlay's loop body with `is not None` tests in place of truthiness: an
\* empty string overrides
OverlayOneNotNone(by_pair, e, group, weekday) ==
  LET p == e.pair_number
      prev == IF p \in DOMAIN by_pair THEN by_pair[p] ELSE Placeholder(group, weekday, p)
  IN IF e.deleted
     THEN Put(by_pair, p,
              [prev EXCEPT
                 !.subject = <<>>, !.teacher = <<>>, !.room = <<>>,
                 !.time_start = IF ~IsNull(e.time_start) THEN e.time_start[1] ELSE @,
                 !.time_end = IF ~IsNull(e.time_end) THEN e.time_end[1] ELSE @])
     ELSE Put(by_pair, p,
              [prev EXCEPT
                 !.subject = IF ~IsNull(e.subject) THEN e.subject[1] ELSE @,
                 !.teacher = IF ~IsNull(e.teacher) THEN e.teacher[1] ELSE @,
                 !.room = IF ~IsNull(e.room) THEN e.room[1] ELSE @,
                 !.time_start = IF ~IsNull(e.time_start) THEN e.time_start[1] ELSE @,
                 !.time_end = IF ~IsNull(e.time_end) THEN e.time_end[1] ELSE @])

\* overlay's loop body, for one edit row e
OverlayOne(by_pair, e, group, weekday) ==
  LET p == e.pair_number
      prev == IF p \in DOMAIN by_pair THEN by_pair[p] ELSE Placeholder(group, weekday, p)
  IN IF e.deleted
     THEN Put(by_pair, p,
              [prev EXCEPT
                 !.subject = <<>>, !.teacher = <<>>, !.room = <<>>,
                 !.time_start = IF Truthy(e.time_start) THEN e.time_start[1] ELSE @,
                 !.time_end = IF Truthy(e.time_end) THEN e.time_end[1] ELSE @])
     ELSE Put(by_pair, p,
              [prev EXCEPT
                 !.subject = IF Truthy(e.subject) THEN e.subject[1] ELSE @,
                 !.teacher = IF Truthy(e.teacher) THEN e.teacher[1] ELSE @,
                 !.room = IF Truthy(e.room) THEN e.room[1] ELSE @,
                 !.time_start = IF Truthy(e.time_start) THEN e.time_start[1] ELSE @,
                 !.time_end = IF Truthy(e.time_end) THEN e.time_end[1] ELSE @])

RECURSIVE Overlay(_, _, _, _)
\* overlay(rows)
Overlay(by_pair, rows, group, weekday) ==
  IF rows = <<>> THEN by_pair
  ELSE Overlay(OverlayOne(by_pair, Head(rows), group, weekday), Tail(rows), group, weekday)

RECURSIVE SortedKeys(_)
\* sorted(keys): ascending
SortedKeys(K) ==
  IF K = {} THEN <<>>
  ELSE LET k == CHOOSE x \in K : \A y \in K : x <= y
       IN <<k>> \o SortedKeys(K \ {k})

RECURSIVE SortedKeysDesc(_)
\* sorted(keys, reverse=True)
SortedKeysDesc(K) ==
  IF K = {} THEN <<>>
  ELSE LET k == CHOOSE x \in K : \A y \in K : x >= y
       IN <<k>> \o SortedKeysDesc(K \ {k})

\* [by_pair[k] for k in keys], the keys in descending order
ResultListDesc(by_pair) ==
  LET keys == SortedKeysDesc({k \in DOMAIN by_pair : k > 0})
  IN [i \in 1..Len(keys) |-> by_pair[keys[i]]]

\* [by_pair[k] for k in sorted(by_pair.keys()) if k > 0]
ResultList(by_pair) ==
  LET keys == SortedKeys({k \in DOMAIN by_pair : k > 0})
  IN [i \in 1..Len(keys) |-> by_pair[keys[i]]]

EmptyDict == [k \in {} |-> 0]

\* the merge with the two overlay calls in the other order
MergeRowsOnceFirst(group, weekday, base_rows, weekly_rows, once_rows) ==
  ResultList(
    Overlay(Overlay(SeedBase(EmptyDict, base_rows), once_rows, group, weekday),
            weekly_rows, group, weekday))

\* the body of merge_by_group_date after its three queries returned
MergeRows(group, weekday, base_rows, weekly_rows, once_rows) ==
  ResultList(
    Overlay(Overlay(SeedBase(EmptyDict, base_rows), weekly_rows, group, weekday),
            once_rows, group, weekday))

\* merge_by_group_date(conn, group, d, weekday, parity): every list it can
\* return on the current tables (one per order the queries may return rows in)
merge_by_group_date(group, d, weekday, parity) ==
  {MergeRows(group, weekday, b, w, o) :
     b \in FetchBase(group, weekday, parity),
     w \in FetchWeekly(group, weekday, parity),
     o \in FetchOnce(group, d)}

---------------------------------------------------------------------------
(* Request handlers *)

MaxRequests == 2

Response(op, status, group, teacher, date_, body) ==
  [op |-> op, status |-> status, group |-> group, teacher |-> teacher,
   date |-> date_, body |-> body]

NoNotice == [kind |-> "none"]

\* GET /api/schedule?group=..&date=..
get_schedule(group, date_) ==
  /\ served < MaxRequests
  /\ IF ~DateValid(date_)
     THEN resp' = Response("schedule", 400, group, <<>>, date_, <<>>)
     ELSE LET d == FromIsoformat(date_)
              weekday == IsoWeekday(d)
              parity == get_schedule_parity(d, anchor).parity
          IN \E result \in merge_by_group_date(group, d, weekday, parity) :
               resp' = Response("schedule", 200, group, <<>>, date_, result)
  /\ served' = served + 1
  /\ notice' = NoNotice
  /\ UNCHANGED <<anchor, dbVars, normVars, parVars, txnVars>>

\* the three candidate queries of get_schedule_by_teacher: groups_set
CandidateGroups(teacher, d, weekday, parity) ==
  {r.group_name : r \in {s \in weekday_schedule :
      /\ s.weekday = weekday
      /\ (s.week_type = "all" \/ s.week_type = parity)
      /\ ~IsNull(s.teacher)
      /\ Lower(SqlTrim(s.teacher[1])) = Lower(teacher)}}
  \cup
  {r.group_name : r \in {e \in weekly_edits :
      /\ e.day_of_week = weekday
      /\ (e.week_type = "all" \/ e.week_type = parity)
      /\ Lower(Coalesce(e.teacher, <<>>)) = Lower(teacher)}}
  \cup
  {r.group_name : r \in {e \in once_edits :
      /\ e.edit_date = d
      /\ Lower(Coalesce(e.teacher, <<>>)) = Lower(teacher)}}

RECURSIVE MergedAll(_, _, _, _)
\* for g in groups_set: merged_all.extend(merge_by_group_date(...)), the groups
\* taken in the order q: every list merged_all can end as
MergedAll(q, d, weekday, parity) ==
  IF q = <<>> THEN {<<>>}
  ELSE {m \o rest : m \in merge_by_group_date(Head(q), d, weekday, parity),
                    rest \in MergedAll(Tail(q), d, weekday, parity)}

\* the sort key (pair_number or 0, time_start or ""), compared as tuples
KeyLess(a, b) ==
  \/ a.pair_number < b.pair_number
  \/ a.pair_number = b.pair_number /\ TextLess(a.time_start, b.time_start)

RECURSIVE InsertStable(_, _)
InsertStable(x, sorted) ==
  IF sorted = <<>> THEN <<x>>
  ELSE IF KeyLess(x, Head(sorted)) THEN <<x>> \o sorted
  ELSE <<Head(sorted)>> \o InsertStable(x, Tail(sorted))

RECURSIVE StableSort(_)
\* list.sort(key=...): stable
StableSort(items) ==
  IF items = <<>> THEN <<>>
  ELSE InsertStable(items[Len(items)], StableSort(SubSeq(items, 1, Len(items) - 1)))

\* [it for it in merged_all if (it.get("teacher") or "").strip().lower() == teacher_norm]
FilterTeacher(items, teacher_norm) ==
  SelectSeq(items, LAMBDA it : Lower(PyStrip(it.teacher)) = teacher_norm)

\* every list get_schedule_by_teacher can return for teacher on the date object d
\* (one per order the queries and the set of groups may be walked in)
ScheduleByTeacherBodies(teacher, d) ==
  LET weekday == IsoWeekday(d)
      parity == get_schedule_by_teacher_parity(d, anchor).parity
      teacher_norm == Lower(PyStrip(teacher))
  IN IF teacher_norm = <<>>
     THEN {<<>>}
     ELSE UNION {{StableSort(FilterTeacher(merged_all, teacher_norm)) :
                    merged_all \in MergedAll(q, d, weekday, parity)} :
                 q \in Perms(CandidateGroups(teacher, d, weekday, parity))}

\* GET /api/schedule_by_teacher?teacher=..&date=..
get_schedule_by_teacher(teacher, date_) ==
  /\ served < MaxRequests
  /\ IF ~DateValid(date_)
     THEN resp' = Response("teacher", 400, <<>>, teacher, date_, <<>>)
     ELSE \E body \in ScheduleByTeacherBodies(teacher, FromIsoformat(date_)) :
            resp' = Response("teacher", 200, <<>>, teacher, date_, body)
  /\ served' = served + 1
  /\ notice' = NoNotice
  /\ UNCHANGED <<anchor, dbVars, normVars, parVars, txnVars>>

\* for i in range(7): d = m + timedelta(days=i), taken one day late
OverviewDaysFromNext(m) == [i \in 1..7 |-> m + i]

\* for i in range(7): d = m + timedelta(days=i)
OverviewDays(m) == [i \in 1..7 |-> m + (i - 1)]

\* group mode: count = len(merged), for each list the merge can return
OverviewGroupCounts(group, d) ==
  {Len(merged) :
     merged \in merge_by_group_date(group, d, IsoWeekday(d),
                                    week_overview_parity(d, anchor).parity)}

\* teacher mode: total = the number of merged sessions of the candidate groups
\* whose teacher is teacher_norm; no early return on an empty teacher_norm
OverviewTeacherCounts(teacher, d) ==
  LET weekday == IsoWeekday(d)
      parity == week_overview_parity(d, anchor).parity
      teacher_norm == Lower(PyStrip(teacher))
  IN UNION {{Len(FilterTeacher(merged_all, teacher_norm)) :
               merged_all \in MergedAll(q, d, weekday, parity)} :
            q \in Perms(CandidateGroups(teacher, d, weekday, parity))}

RECURSIVE OverviewOut(_, _, _)
\* every list `out` can end as: one {"date", "count"} entry per day of days
OverviewOut(group, teacher, days) ==
  IF days = <<>> THEN {<<>>}
  ELSE LET d == Head(days)
           counts == IF Truthy(group) THEN OverviewGroupCounts(group[1], d)
                     ELSE OverviewTeacherCounts(teacher[1], d)
       IN {<<[date |-> Isoformat(d), count |-> c]>> \o rest :
             c \in counts, rest \in OverviewOut(group, teacher, Tail(days))}

\* GET /api/week_overview?group=..|teacher=..&monday=..
week_overview(group, teacher, monday) ==
  /\ served < MaxRequests
  /\ IF Truthy(group) = Truthy(teacher) \/ ~DateValid(monday)
     THEN resp' = Response("week_overview", 400, group, teacher, monday, <<>>)
     ELSE \E out \in OverviewOut(group, teacher, OverviewDays(FromIsoformat(monday))) :
            resp' = Response("week_overview", 200, group, teacher, monday, out)
  /\ served' = served + 1
  /\ notice' = NoNotice
  /\ UNCHANGED <<anchor, dbVars, normVars, parVars, txnVars>>

\* `x or '—'` in a notification text
OrDash(o) == IF Truthy(o) THEN o[1] ELSE <<8212>>

\* the checks of upsert_once_edit without `if body.pair <= 0`
OnceEditInvalidDateOnly(body) == ~DateValid(body.date)

\* upsert_once_edit answers 400: Date.fromisoformat(body.date) raises ValueError,
\* or body.pair <= 0
OnceEditInvalid(body) == ~DateValid(body.date) \/ body.pair <= 0

\* what the DELETE of upsert_once_edit leaves when it removes nothing
DeleteOnceKeyNothing(rows, group, edit_date, pair) == rows

\* DELETE FROM once_edits WHERE group_name=$1 AND edit_date=$2 AND pair_number=$3:
\* the rows of `rows` it leaves
DeleteOnceKey(rows, group, edit_date, pair) ==
  {e \in rows :
     ~(e.group_name = group /\ e.edit_date = edit_date /\ e.pair_number = pair)}

\* POST /api/edits/once
upsert_once_edit(body) ==
  /\ served < MaxRequests
  /\ served' = served + 1
  /\ UNCHANGED <<anchor, weekday_schedule, weekly_edits, normVars, parVars, txnVars>>
  /\ IF OnceEditInvalid(body)
     THEN /\ resp' = Response("upsert_once", 400, body.group, <<>>, body.date, <<>>)
          /\ notice' = NoNotice
          /\ UNCHANGED once_edits
     ELSE LET edit_date == FromIsoformat(body.date)
              kept == DeleteOnceKey(once_edits, body.group, edit_date, body.pair)
              row == [group_name |-> body.group,
                      edit_date |-> edit_date, pair_number |-> body.pair,
                      subject |-> body.subject, teacher |-> body.teacher,
                      room |-> body.room, time_start |-> body.time_start,
                      time_end |-> body.time_end, deleted |-> body.deleted]
          IN IF body.pair > 20
                THEN \* CHECK (pair_number > 0 AND pair_number <= 20) fails: the
                     \* transaction rolls back and the exception leaves the handler
                     /\ once_edits' = once_edits
                     /\ resp' = Response("upsert_once", 500, body.group, <<>>, body.date, <<>>)
                     /\ notice' = NoNotice
                ELSE /\ once_edits' = kept \cup {row}
                     /\ resp' = Response("upsert_once", 200, body.group, <<>>, body.date, <<>>)
                     /\ notice' = [kind |-> "once", group |-> body.group,
                                   date |-> body.date, pair |-> body.pair,
                                   subject |-> OrDash(body.subject),
                                   teacher |-> OrDash(body.teacher),
                                   room |-> OrDash(body.room),
                                   time_start |-> OrDash(body.time_start),
                                   time_end |-> OrDash(body.time_end),
                                   deleted |-> body.deleted]

\* the DELETE of delete_once_for_day with the group names compared normalised
DeleteOnceDayNormalised(rows, group, edit_date) ==
  {e \in rows :
     ~(NormalizeGroup(e.group_name) = NormalizeGroup(group) /\ e.edit_date = edit_date)}

\* DELETE FROM once_edits WHERE group_name=$1 AND edit_date=$2: the rows it leaves
DeleteOnceDay(rows, group, edit_date) ==
  {e \in rows : ~(e.group_name = group /\ e.edit_date = edit_date)}

\* DELETE /api/edits/once?group=..&date=..
delete_once_for_day(group, date_) ==
  /\ served < MaxRequests
  /\ served' = served + 1
  /\ UNCHANGED <<anchor, weekday_schedule, weekly_edits, normVars, parVars, txnVars>>
  /\ IF ~DateValid(date_)
     THEN /\ resp' = Response("delete_once", 400, group, <<>>, date_, <<>>)
          /\ notice' = NoNotice
          /\ UNCHANGED once_edits
     ELSE LET edit_date == FromIsoformat(date_)
          IN /\ once_edits' = DeleteOnceDay(once_edits, group, edit_date)
             /\ resp' = Response("delete_once", 200, group, <<>>, date_, <<>>)
             /\ notice' = [kind |-> "delete", group |-> group, date |-> date_]

TextAll == <<97, 108, 108>>
TextEven == <<101, 118, 101, 110>>
TextOdd == <<111, 100, 100>>

\* scope = (body.scope or "all").lower(); anything unknown becomes "all"
ScopeOf(scope) ==
  LET t == Lower(PyOr(scope, TextAll))
  IN IF t = TextEven THEN "even" ELSE IF t = TextOdd THEN "odd" ELSE "all"

\* upsert_weekly_edit answers 400
WeeklyEditInvalid(body) ==
  body.pair <= 0 \/ ~(1 <= body.day_of_week /\ body.day_of_week <= 7)

\* DELETE FROM weekly_edits WHERE group_name=$1 AND day_of_week=$2 AND
\* pair_number=$3 AND week_type=$4: the rows of `rows` it leaves
DeleteWeeklyKey(rows, group, day_of_week, pair, scope) ==
  {e \in rows :
     ~(e.group_name = group /\ e.day_of_week = day_of_week
       /\ e.pair_number = pair /\ e.week_type = scope)}

\* POST /api/edits/weekly
upsert_weekly_edit(body) ==
  /\ served < MaxRequests
  /\ served' = served + 1
  /\ UNCHANGED <<anchor, weekday_schedule, once_edits, normVars, parVars, txnVars>>
  /\ IF WeeklyEditInvalid(body)
     THEN /\ resp' = Response("upsert_weekly", 400, body.group, <<>>, <<>>, <<>>)
          /\ notice' = NoNotice
          /\ UNCHANGED weekly_edits
     ELSE LET scope == ScopeOf(body.scope)
              kept == DeleteWeeklyKey(weekly_edits, body.group, body.day_of_week,
                                      body.pair, scope)
              row == [group_name |-> body.group,
                      day_of_week |-> body.day_of_week, pair_number |-> body.pair,
                      week_type |-> scope,
                      subject |-> body.subject, teacher |-> body.teacher,
                      room |-> body.room, time_start |-> body.time_start,
                      time_end |-> body.time_end, deleted |-> body.deleted]
          IN IF body.pair > 20
                THEN /\ weekly_edits' = weekly_edits
                     /\ resp' = Response("upsert_weekly", 500, body.group, <<>>, <<>>, <<>>)
                     /\ notice' = NoNotice
                ELSE /\ weekly_edits' = kept \cup {row}
                     /\ resp' = Response("upsert_weekly", 200, body.group, <<>>, <<>>, <<>>)
                     /\ notice' = [kind |-> "weekly", group |-> body.group,
                                   day_of_week |-> body.day_of_week, pair |-> body.pair,
                                   scope |-> PyOr(body.scope, TextAll),
                                   subject |-> OrDash(body.subject),
                                   teacher |-> OrDash(body.teacher),
                                   room |-> OrDash(body.room),
                                   time_start |-> OrDash(body.time_start),
                                   time_end |-> OrDash(body.time_end),
                                   deleted |-> body.deleted]

---------------------------------------------------------------------------
(* Spec: the handlers on bounded tables and requests *)

\* group names: "AB-1" in Latin, "АВ1" in Cyrillic (the same name once
\* normalised), and "IS"
G_lat == <<65, 66, 45, 49>>
G_cyr == <<1040, 1042, 49>>
G_is == <<73, 83>>

\* teacher names "p", "P", "p " and "i"; the blank name " "
T_p == <<112>>
T_P == <<80>>
T_psp == <<112, 32>>
T_i == <<105>>
T_blank == <<32>>

\* subjects "M", "F", "C"; rooms "1", "2", "3"; times of day
S_math == <<77>>
S_phys == <<70>>
S_chem == <<67>>
R_1 == <<49>>
R_2 == <<50>>
R_3 == <<51>>
Time0900 == <<9, 0, 0>>
Time1030 == <<10, 30, 0>>
Time1040 == <<10, 40, 0>>
Time1210 == <<12, 10, 0>>
Text1000 == <<49, 48, 58, 48, 48>>
Text1130 == <<49, 49, 58, 51, 48>>
Text1400 == <<49, 52, 58, 48, 48>>

BaseRow(id, g, wd, p, wt, subj, t, room, ts, te) ==
  [id |-> id, group_name |-> g, weekday |-> wd, pair_number |-> p, week_type |-> wt,
   subject |-> subj, teacher |-> t, room |-> room, time_start |-> ts, time_end |-> te]

\* what the import can have left in weekday_schedule
BaseTables ==
  { { BaseRow(1, G_cyr, 1, 1, "all", Some(S_math), Some(T_p), Some(R_1), Time0900, Time1030),
      BaseRow(2, G_cyr, 1, 3, "odd", Null, Some(T_P), Null, Time1040, Time1210),
      BaseRow(3, G_is, 1, 1, "all", Some(S_math), Some(T_i), Some(R_1), Time0900, Time1030) },
    { BaseRow(1, G_cyr, 1, 2, "all", Some(S_math), Some(T_i), Some(R_1), Time1040, Time1210),
      BaseRow(2, G_lat, 1, 2, "even", Some(S_phys), Some(T_psp), Some(R_2), Time1040, Time1210),
      BaseRow(3, G_lat, 2, 1, "all", Some(S_math), Some(T_p), Some(R_1), Time0900, Time1030) } }

Anchors == {Null, Some(<<2024, 1, 8>>)}

\* Monday 2024-01-01, Monday 2024-01-08, and a date that does not exist
D1 == <<2024, 1, 1>>
D2 == <<2024, 1, 8>>
BadDate == <<2024, 2, 30>>

Payload(subj, t, room, ts, te, del) ==
  [subject |-> subj, teacher |-> t, room |-> room, time_start |-> ts, time_end |-> te,
   deleted |-> del]

\* the fields of a weekly edit: a full one, a partial one with empty strings, a
\* deletion that carries a start time and a subject
WeeklyPayloads ==
  { Payload(Some(S_phys), Some(T_p), Some(R_2), Some(Text1000), Some(Text1130), FALSE),
    Payload(Some(<<>>), Null, Some(R_3), Null, Some(<<>>), FALSE),
    Payload(Some(S_phys), Null, Null, Some(Text1000), Null, TRUE) }

\* the fields of a once edit: two partial ones, a bare deletion, a deletion that
\* carries an end time and a room
OncePayloads ==
  { Payload(Some(S_chem), Some(T_i), Null, Some(<<>>), Some(Text1400), FALSE),
    Payload(Null, Some(T_psp), Some(R_1), Some(Text1400), Some(<<>>), FALSE),
    Payload(Null, Null, Null, Null, Null, TRUE),
    Payload(Null, Some(<<>>), Some(R_1), Null, Some(Text1400), TRUE) }

OnceBody(g, dt, p, x) ==
  [group |-> g, date |-> dt, pair |-> p, subject |-> x.subject, teacher |-> x.teacher,
   room |-> x.room, time_start |-> x.time_start, time_end |-> x.time_end,
   deleted |-> x.deleted]

WeeklyBody(g, dow, p, sc, x) ==
  [group |-> g, day_of_week |-> dow, pair |-> p, scope |-> sc,
   subject |-> x.subject, teacher |-> x.teacher,
   room |-> x.room, time_start |-> x.time_start, time_end |-> x.time_end,
   deleted |-> x.deleted]

\* the largest pair number of a well-formed edit request
MaxPair == 2

FirstOncePayload == Payload(Some(S_chem), Some(T_i), Null, Some(<<>>), Some(Text1400), FALSE)
FirstWeeklyPayload ==
  Payload(Some(S_phys), Some(T_p), Some(R_2), Some(Text1000), Some(Text1130), FALSE)

\* request bodies of POST /api/edits/once: well-formed ones, one whose teacher
\* is a single space, and malformed or refused ones
OnceBodies ==
  {OnceBody(G_lat, D1, p, x) : p \in 1..MaxPair, x \in OncePayloads}
  \cup {OnceBody(G_lat, D1, 1, Payload(Null, Some(T_blank), Null, Null, Null, FALSE))}
  \cup {OnceBody(G_lat, dt, p, FirstOncePayload) : dt \in {D1, BadDate}, p \in {0, 21}}

\* request bodies of POST /api/edits/weekly; scopes "all", "ODD", and for the
\* last set "even" and "x"
WeeklyBodies ==
  {WeeklyBody(G_lat, 1, p, sc, x) :
     p \in 1..MaxPair, sc \in {TextAll, <<79, 68, 68>>}, x \in WeeklyPayloads}
  \cup {WeeklyBody(G_lat, dow, p, sc, FirstWeeklyPayload) :
          dow \in {1, 8}, p \in {0, 1, 21}, sc \in {TextEven, <<120>>}}

WeeklyRow(g, dow, p, wt, x) ==
  [group_name |-> g, day_of_week |-> dow, pair_number |-> p, week_type |-> wt,
   subject |-> x.subject, teacher |-> x.teacher, room |-> x.room,
   time_start |-> x.time_start, time_end |-> x.time_end, deleted |-> x.deleted]

OnceRow(g, d, p, x) ==
  [group_name |-> g, edit_date |-> d, pair_number |-> p,
   subject |-> x.subject, teacher |-> x.teacher, room |-> x.room,
   time_start |-> x.time_start, time_end |-> x.time_end, deleted |-> x.deleted]

\* what earlier requests can have left in weekly_edits
WeeklyTables ==
  { {},
    { WeeklyRow(G_lat, 1, 1, "all", FirstWeeklyPayload) },
    { WeeklyRow(G_lat, 1, 2, "all", Payload(Null, Some(T_psp), Null, Null, Null, FALSE)),
      WeeklyRow(G_cyr, 1, 1, "even", FirstWeeklyPayload) } }

\* what earlier requests can have left in once_edits
OnceTables ==
  { {},
    { OnceRow(G_lat, FromIsoformat(D2), 1, FirstOncePayload),
      OnceRow(G_cyr, FromIsoformat(D1), 2, Payload(Null, Some(T_P), Null, Null, Null, FALSE)) } }

ScheduleGroups == {G_lat, G_cyr, G_is}
RequestDates == {D1, D2, BadDate}
RequestTeachers == {T_p, T_psp, T_i, T_blank}

Init ==
  /\ nin = <<>> /\ nout = [stage |-> "none", arg |-> <<>>, val |-> <<>>]
  /\ pdate = <<>> /\ panchor = Null /\ pres = NoParity
  /\ anchor \in Anchors
  /\ weekday_schedule \in BaseTables
  /\ weekly_edits \in WeeklyTables
  /\ once_edits \in OnceTables
  /\ served = 0
  /\ resp = Response("none", 0, <<>>, <<>>, <<>>, <<>>)
  /\ notice = NoNotice
  /\ TxnIdle

GetSchedule ==
  /\ \E g \in ScheduleGroups, dt \in RequestDates : get_schedule(g, dt)
  /\ UNCHANGED readVars

GetScheduleByTeacher ==
  /\ \E t \in RequestTeachers, dt \in RequestDates : get_schedule_by_teacher(t, dt)
  /\ UNCHANGED readVars

UpsertOnce ==
  /\ \E body \in OnceBodies : upsert_once_edit(body)
  /\ UNCHANGED readVars

DeleteOnceForDay ==
  /\ \E g \in {G_lat, G_cyr}, dt \in {D1, BadDate} : delete_once_for_day(g, dt)
  /\ UNCHANGED readVars

UpsertWeekly ==
  /\ \E body \in WeeklyBodies : upsert_weekly_edit(body)
  /\ UNCHANGED readVars

\* Wednesday 2024-01-03: the start of a week_overview need not be a Monday
D3 == <<2024, 1, 3>>

\* the (group, teacher, monday) parameters of week_overview: a group or a
\* teacher, both, and a start that is no date
OverviewParams ==
  { <<Some(G_lat), Null, D1>>, <<Some(G_lat), Null, D3>>,
    <<Null, Some(T_p), D1>>, <<Null, Some(T_psp), D3>>, <<Null, Some(T_blank), D1>>,
    <<Some(G_lat), Some(T_p), D1>>, <<Some(G_cyr), Null, BadDate>> }

WeekOverview ==
  /\ \E q \in OverviewParams : week_overview(q[1], q[2], q[3])
  /\ UNCHANGED readVars

Next ==
  \/ GetSchedule
  \/ GetScheduleByTeacher
  \/ UpsertOnce
  \/ DeleteOnceForDay
  \/ UpsertWeekly
  \/ WeekOverview

Spec == Init /\ [][Next]_vars

---------------------------------------------------------------------------
(* SpecTxn: two workers serve one edit request each, statement by statement. *)
(* The pool gives each request its own connection; conn.transaction() opens *)
(* a READ COMMITTED transaction.  once_edits and weekly_edits hold the      *)
(* committed rows, here with their id column, since two rows can agree in   *)
(* every other column.  A DELETE sees the committed rows and waits while    *)
(* another open transaction has deleted one of them; an INSERT conflicts    *)
(* with nothing, the edit tables having no unique index besides id.         *)

Workers == {1, 2}

\* the places of a handler: "idle" before the request, "begun" inside the
\* transaction block, "deleted" after its DELETE, "inserted" after its INSERT,
\* "committed" once the block is left (or the single DELETE has run),
\* "notified" after tg_send returned, "done" once answered
NoTxn == [pc |-> "idle", req |-> [op |-> "none"], del |-> {}, ins |-> {},
          tg |-> "none", status |-> 0]

TxnOnceRow(id, body) ==
  [id |-> id, group_name |-> body.group, edit_date |-> FromIsoformat(body.date),
   pair_number |-> body.pair, subject |-> body.subject, teacher |-> body.teacher,
   room |-> body.room, time_start |-> body.time_start, time_end |-> body.time_end,
   deleted |-> body.deleted]

TxnWeeklyRow(id, body) ==
  [id |-> id, group_name |-> body.group, day_of_week |-> body.day_of_week,
   pair_number |-> body.pair, week_type |-> ScopeOf(body.scope),
   subject |-> body.subject, teacher |-> body.teacher,
   room |-> body.room, time_start |-> body.time_start, time_end |-> body.time_end,
   deleted |-> body.deleted]

BarePayload == Payload(Null, Null, Null, Null, Null, TRUE)

\* the requests a worker may get: upserts at one once key and one weekly key,
\* a once upsert the CHECK on pair_number refuses, one with a bad date, and
\* the deletion of the day
TxnRequests ==
  {[op |-> "upsert_once", body |-> OnceBody(G_lat, D1, 1, x)] :
     x \in {FirstOncePayload, BarePayload}}
  \cup {[op |-> "upsert_once", body |-> OnceBody(G_lat, D1, 21, FirstOncePayload)],
        [op |-> "upsert_once", body |-> OnceBody(G_lat, BadDate, 1, FirstOncePayload)]}
  \cup {[op |-> "upsert_weekly", body |-> WeeklyBody(G_lat, 1, 1, TextAll, x)] :
          x \in {FirstWeeklyPayload, BarePayload}}
  \cup {[op |-> "delete_once", group |-> G_lat, date |-> D1]}

\* what the tables can hold when the two requests arrive; stored rows have id 0
TxnOnceTables ==
  {{}, {TxnOnceRow(0, OnceBody(G_lat, D1, 1,
                               Payload(Null, Some(T_P), Null, Null, Null, FALSE)))}}
TxnWeeklyTables ==
  {{}, {TxnWeeklyRow(0, WeeklyBody(G_lat, 1, 1, TextAll,
                                   Payload(Null, Some(T_P), Null, Null, Null, FALSE)))}}

TxnInit ==
  /\ NormIdle /\ ParityIdle
  /\ anchor = <<>> /\ weekday_schedule = {}
  /\ served = 0 /\ resp = [op |-> "none"] /\ notice = [kind |-> "none"]
  /\ once_edits \in TxnOnceTables
  /\ weekly_edits \in TxnWeeklyTables
  /\ txn = [w \in Workers |-> NoTxn]
  /\ commits = <<>>
  /\ rd = <<>>

TxnFrame ==
  UNCHANGED <<normVars, parVars, anchor, weekday_schedule, served, resp, notice, readVars>>

\* the rows another open transaction has deleted and not yet committed
LockedBy(others) == UNION {txn[q].del : q \in others}

\* the rows the DELETE of request req aims at, among the committed rows
TxnTargets(req) ==
  IF req.op = "upsert_once"
  THEN once_edits \ DeleteOnceKey(once_edits, req.body.group,
                                  FromIsoformat(req.body.date), req.body.pair)
  ELSE IF req.op = "upsert_weekly"
  THEN weekly_edits \ DeleteWeeklyKey(weekly_edits, req.body.group, req.body.day_of_week,
                                      req.body.pair, ScopeOf(req.body.scope))
  ELSE once_edits \ DeleteOnceDay(once_edits, req.group, FromIsoformat(req.date))

\* the handler is entered: its checks before the pool is touched
TxnBegin(w) ==
  /\ txn[w].pc = "idle"
  /\ \E req \in TxnRequests :
       LET bad == IF req.op = "upsert_once" THEN OnceEditInvalid(req.body)
                  ELSE IF req.op = "upsert_weekly" THEN WeeklyEditInvalid(req.body)
                  ELSE ~DateValid(req.date)
       IN txn' = [txn EXCEPT ![w] =
                    IF bad THEN [NoTxn EXCEPT !.pc = "done", !.req = req, !.status = 400]
                    ELSE [NoTxn EXCEPT !.pc = "begun", !.req = req]]
  /\ UNCHANGED <<once_edits, weekly_edits, commits>>
  /\ TxnFrame

\* the DELETE of an upsert, inside its transaction
TxnDelete(w) ==
  /\ txn[w].pc = "begun"
  /\ txn[w].req.op \in {"upsert_once", "upsert_weekly"}
  /\ TxnTargets(txn[w].req) \cap LockedBy(Workers \ {w}) = {}
  /\ txn' = [txn EXCEPT ![w].pc = "deleted", ![w].del = TxnTargets(txn[w].req)]
  /\ UNCHANGED <<once_edits, weekly_edits, commits>>
  /\ TxnFrame

\* the INSERT of an upsert; the row's id comes from the table's sequence (here
\* the worker's number).  A pair number above 20 fails the CHECK: the exception
\* leaves the transaction block, which rolls back, and the handler
TxnInsert(w) ==
  /\ txn[w].pc = "deleted"
  /\ LET req == txn[w].req
     IN txn' = [txn EXCEPT ![w] =
                  IF req.body.pair > 20
                  THEN [@ EXCEPT !.pc = "done", !.del = {}, !.status = 500]
                  ELSE [@ EXCEPT !.pc = "inserted",
                                 !.ins = {IF req.op = "upsert_once"
                                          THEN TxnOnceRow(w, req.body)
                                          ELSE TxnWeeklyRow(w, req.body)}]]
  /\ UNCHANGED <<once_edits, weekly_edits, commits>>
  /\ TxnFrame

\* the transaction block is left: COMMIT
TxnCommit(w) ==
  /\ txn[w].pc = "inserted"
  /\ IF txn[w].req.op = "upsert_once"
     THEN /\ once_edits' = (once_edits \ txn[w].del) \cup txn[w].ins
          /\ UNCHANGED weekly_edits
     ELSE /\ weekly_edits' = (weekly_edits \ txn[w].del) \cup txn[w].ins
          /\ UNCHANGED once_edits
  /\ txn' = [txn EXCEPT ![w].pc = "committed", ![w].del = {}]
  /\ commits' = Append(commits, w)
  /\ TxnFrame

\* delete_once_for_day: one DELETE on a connection outside any transaction
\* block, committed as it ends
TxnDeleteDay(w) ==
  /\ txn[w].pc = "begun"
  /\ txn[w].req.op = "delete_once"
  /\ TxnTargets(txn[w].req) \cap LockedBy(Workers \ {w}) = {}
  /\ once_edits' = once_edits \ TxnTargets(txn[w].req)
  /\ txn' = [txn EXCEPT ![w].pc = "committed"]
  /\ commits' = Append(commits, w)
  /\ UNCHANGED weekly_edits
  /\ TxnFrame

\* tg_send called from inside the transaction block, before its COMMIT
InsideTransaction(pc) == pc = "inserted"

\* where the handlers call tg_send: after the `async with` blocks are left
AfterTransaction(pc) == pc = "committed"

\* await tg_send(msg): not configured (returns at once), every post succeeded,
\* or a post raised and the exception was caught and printed
TgSend(w) ==
  /\ AfterTransaction(txn[w].pc)
  /\ \E outcome \in {"unconfigured", "sent", "failed"} :
       txn' = [txn EXCEPT ![w].pc = "notified", ![w].tg = outcome]
  /\ UNCHANGED <<once_edits, weekly_edits, commits>>
  /\ TxnFrame

\* return {"ok": True}
TxnRespond(w) ==
  /\ txn[w].pc = "notified"
  /\ txn' = [txn EXCEPT ![w].pc = "done", ![w].status = 200]
  /\ UNCHANGED <<once_edits, weekly_edits, commits>>
  /\ TxnFrame

Begin == \E w \in Workers : TxnBegin(w)
Delete == \E w \in Workers : TxnDelete(w)
Insert == \E w \in Workers : TxnInsert(w)
Commit == \E w \in Workers : TxnCommit(w)
DeleteDay == \E w \in Workers : TxnDeleteDay(w)
Notify == \E w \in Workers : TgSend(w)
Respond == \E w \in Workers : TxnRespond(w)

TxnNext == Begin \/ Delete \/ Insert \/ Commit \/ DeleteDay \/ Notify \/ Respond

SpecTxn == TxnInit /\ [][TxnNext]_vars

---------------------------------------------------------------------------
(* SpecRead: one GET /api/schedule followed await by await while edit       *)
(* requests are served.  get_schedule takes a connection from the pool and  *)
(* merge_by_group_date runs its three queries on it outside any             *)
(* transaction, so each statement sees the rows committed when it runs.  An *)
(* edit request changes its table in one transaction, whose effect appears  *)
(* at once when it commits; the base table is not written by the API.       *)

\* the places of the call: "idle" before it, "acquired" once the date is
\* parsed and the connection taken, "base" and "weekly" after those queries,
\* "done" once the once_edits query has run and the merged list is returned
NoRead ==
  [pc |-> "idle", status |-> 0, group |-> <<>>, date |-> <<>>, d |-> 0, weekday |-> 0,
   parity |-> "", base_rows |-> <<>>, weekly_rows |-> <<>>, once_rows |-> <<>>,
   weekly_at |-> {}, once_at |-> {}, result |-> <<>>,
   start |-> [weekly |-> {}, once |-> {}], seen |-> {}]

\* the weekly_edits query on the table content rows
WeeklyRowsOf(rows, group, weekday, parity) ==
  {[i \in 1..Len(q) |-> EditSelect(q[i])] :
     q \in Perms({e \in rows : WeeklyWhere(e, group, weekday, parity)})}

\* the once_edits query on the table content rows
OnceRowsOf(rows, group, d) ==
  {[i \in 1..Len(q) |-> EditSelect(q[i])] :
     q \in Perms({e \in rows : OnceWhere(e, group, d)})}

\* the once_edits query of call r, were it to see the table as it was when the
\* call began (one snapshot for the three queries)
ReadOnceRowsAtStart(r) == OnceRowsOf(r.start.once, r.group, r.d)

\* the once_edits query of call r: it sees the rows committed when it runs
ReadOnceRows(r) == FetchOnce(r.group, r.d)

ReadGroups == {G_lat}
ReadDates == {D1, BadDate}

\* the edit requests served meanwhile: two well-formed ones and a refused one each
ReadOnceBodies ==
  { OnceBody(G_lat, D1, 1, FirstOncePayload),
    OnceBody(G_lat, D1, 2, Payload(Null, Some(T_psp), Some(R_1), Some(Text1400), Some(<<>>), FALSE)),
    OnceBody(G_lat, BadDate, 1, FirstOncePayload) }

ReadWeeklyBodies ==
  { WeeklyBody(G_lat, 1, 1, TextAll, FirstWeeklyPayload),
    WeeklyBody(G_lat, 1, 2, TextAll, Payload(Some(<<>>), Null, Some(R_3), Null, Some(<<>>), FALSE)),
    WeeklyBody(G_lat, 8, 1, TextAll, FirstWeeklyPayload) }

ReadInit ==
  /\ NormIdle /\ ParityIdle
  /\ anchor \in Anchors
  /\ weekday_schedule \in BaseTables
  /\ weekly_edits \in WeeklyTables
  /\ once_edits \in OnceTables
  /\ served = 0
  /\ resp = Response("none", 0, <<>>, <<>>, <<>>, <<>>)
  /\ notice = NoNotice
  /\ txn = <<>> /\ commits = <<>>
  /\ rd = NoRead

\* get_schedule up to pool.acquire(): the date, the weekday and the parity
ReadCall ==
  /\ rd.pc = "idle"
  /\ \E group \in ReadGroups, date_ \in ReadDates :
       LET now == [weekly |-> weekly_edits, once |-> once_edits]
       IN IF ~DateValid(date_)
          THEN rd' = [NoRead EXCEPT !.pc = "done", !.status = 400, !.group = group,
                                    !.date = date_, !.start = now, !.seen = {now}]
          ELSE LET d == FromIsoformat(date_)
               IN rd' = [NoRead EXCEPT !.pc = "acquired", !.group = group, !.date = date_,
                                       !.d = d, !.weekday = IsoWeekday(d),
                                       !.parity = get_schedule_parity(d, anchor).parity,
                                       !.start = now, !.seen = {now}]
  /\ UNCHANGED <<normVars, parVars, apiVars, txnVars>>

\* base_rows = await conn.fetch(...)
ReadBase ==
  /\ rd.pc = "acquired"
  /\ \E b \in FetchBase(rd.group, rd.weekday, rd.parity) :
       rd' = [rd EXCEPT !.pc = "base", !.base_rows = b]
  /\ UNCHANGED <<normVars, parVars, apiVars, txnVars>>

\* weekly_rows = await conn.fetch(...)
ReadWeekly ==
  /\ rd.pc = "base"
  /\ \E w \in FetchWeekly(rd.group, rd.weekday, rd.parity) :
       rd' = [rd EXCEPT !.pc = "weekly", !.weekly_rows = w, !.weekly_at = weekly_edits]
  /\ UNCHANGED <<normVars, parVars, apiVars, txnVars>>

\* once_rows = await conn.fetch(...), then the merge and the return
ReadOnce ==
  /\ rd.pc = "weekly"
  /\ \E o \in ReadOnceRows(rd) :
       rd' = [rd EXCEPT !.pc = "done", !.status = 200, !.once_rows = o,
                        !.once_at = once_edits,
                        !.result = MergeRows(rd.group, rd.weekday, rd.base_rows,
                                             rd.weekly_rows, o)]
  /\ UNCHANGED <<normVars, parVars, apiVars, txnVars>>

\* while the call is under way, the table contents a commit leaves are noted
ReadNote ==
  rd' = IF rd.pc \in {"idle", "done"} THEN rd
        ELSE [rd EXCEPT !.seen = @ \cup {[weekly |-> weekly_edits', once |-> once_edits']}]

\* POST /api/edits/once is served meanwhile
MeanwhileUpsertOnce ==
  /\ \E body \in ReadOnceBodies : upsert_once_edit(body)
  /\ ReadNote

\* POST /api/edits/weekly is served meanwhile
MeanwhileUpsertWeekly ==
  /\ \E body \in ReadWeeklyBodies : upsert_weekly_edit(body)
  /\ ReadNote

\* DELETE /api/edits/once/day is served meanwhile
MeanwhileDeleteOnceForDay ==
  /\ delete_once_for_day(G_lat, D1)
  /\ ReadNote

ReadNext ==
  \/ ReadCall
  \/ ReadBase
  \/ ReadWeekly
  \/ ReadOnce
  \/ MeanwhileUpsertOnce
  \/ MeanwhileUpsertWeekly
  \/ MeanwhileDeleteOnceForDay

SpecRead == ReadInit /\ [][ReadNext]_vars

---------------------------------------------------------------------------
(* Claims about merge_by_group_date, read off the answer of GET /api/schedule (Spec) *)

\* the last request was GET /api/schedule and was answered with a merged list
Answered == resp.op = "schedule" /\ resp.status = 200

ReqOrd == FromIsoformat(resp.date)
ReqWeekday == IsoWeekday(ReqOrd)
ReqParity == get_schedule_parity(ReqOrd, anchor).parity

\* the rows of each tier that apply to the request at pair number p
BaseAt(p) ==
  {BaseSelect(s) : s \in {r \in weekday_schedule :
      BaseWhere(r, resp.group, ReqWeekday, ReqParity) /\ r.pair_number = p}}
WeeklyAt(p) ==
  {e \in weekly_edits :
      WeeklyWhere(e, resp.group, ReqWeekday, ReqParity) /\ e.pair_number = p}
OnceAt(p) == {e \in once_edits : OnceWhere(e, resp.group, ReqOrd) /\ e.pair_number = p}

\* the pair numbers any tier has a row for
MergedPairs ==
  {r.pair_number : r \in {x \in weekday_schedule :
      BaseWhere(x, resp.group, ReqWeekday, ReqParity)}}
  \cup {e.pair_number : e \in {x \in weekly_edits :
      WeeklyWhere(x, resp.group, ReqWeekday, ReqParity)}}
  \cup {e.pair_number : e \in {x \in once_edits : OnceWhere(x, resp.group, ReqOrd)}}

\* the positions of the answer that hold pair number p
SessionsAt(p) == {i \in DOMAIN resp.body : resp.body[i].pair_number = p}

Fields == {"subject", "teacher", "room", "time_start", "time_end"}
TextFields == {"subject", "teacher", "room"}
TimeFields == {"time_start", "time_end"}

\* the non-empty values the edits E supply for field f
Supplied(E, f) == {e[f][1] : e \in {x \in E : Truthy(x[f])}}

\* the values the base tier can give field f at pair p: empty without a base row
BaseVals(p, f) == IF BaseAt(p) = {} THEN {<<>>} ELSE {b[f] : b \in BaseAt(p)}

\* the values base and weekly edits together can give field f at pair p: what
\* the merge without the once edits returns, empty when it has no session at p
PriorVals(p, f) ==
  LET prior == {MergeRows(resp.group, ReqWeekday, b, w, <<>>) :
                  b \in FetchBase(resp.group, ReqWeekday, ReqParity),
                  w \in FetchWeekly(resp.group, ReqWeekday, ReqParity)}
      at == UNION {{m[i][f] : i \in {j \in DOMAIN m : m[j].pair_number = p}} : m \in prior}
  IN IF at = {} THEN {<<>>} ELSE at

\* C1: at every pair number whose applicable edits are all non-deleted, each of
\* subject, teacher, room, time_start, time_end carries the value a once edit
\* supplies non-empty; failing that the value a weekly edit supplies non-empty;
\* failing that the base value.
ThmC1_TierPrecedence ==
  Answered =>
    \A p \in MergedPairs :
      ((\A e \in WeeklyAt(p) : ~e.deleted) /\ (\A e \in OnceAt(p) : ~e.deleted)) =>
        /\ SessionsAt(p) # {}
        /\ \A i \in SessionsAt(p), f \in Fields :
             resp.body[i][f] \in
               (IF Supplied(OnceAt(p), f) # {} THEN Supplied(OnceAt(p), f)
                ELSE IF Supplied(WeeklyAt(p), f) # {} THEN Supplied(WeeklyAt(p), f)
                ELSE BaseVals(p, f))

\* a pair with a base subject, another weekly subject and a third once subject,
\* answered with the once subject
WitC1_OnceBeatsWeeklyBeatsBase ==
  /\ Answered
  /\ \E p \in MergedPairs : \E i \in SessionsAt(p) :
       /\ \A e \in WeeklyAt(p) : ~e.deleted
       /\ \A e \in OnceAt(p) : ~e.deleted
       /\ Supplied(OnceAt(p), "subject") = {S_chem}
       /\ Supplied(WeeklyAt(p), "subject") = {S_phys}
       /\ BaseVals(p, "subject") = {S_math}
       /\ resp.body[i].subject = S_chem

\* C2: a non-deleted edit replaces exactly the fields it supplies non-empty; a
\* field it gives as null or "" keeps the value of the tier below (base and
\* weekly edits for a once edit, base for a lone weekly edit).
ThmC2_PartialOverride ==
  Answered =>
    \A p \in MergedPairs :
      /\ \A o \in OnceAt(p) :
           ~o.deleted =>
             /\ SessionsAt(p) # {}
             /\ \A i \in SessionsAt(p), f \in Fields :
                  IF Truthy(o[f]) THEN resp.body[i][f] = o[f][1]
                  ELSE resp.body[i][f] \in PriorVals(p, f)
      /\ \A w \in WeeklyAt(p) :
           (OnceAt(p) = {} /\ WeeklyAt(p) = {w} /\ ~w.deleted) =>
             /\ SessionsAt(p) # {}
             /\ \A i \in SessionsAt(p), f \in Fields :
                  IF Truthy(w[f]) THEN resp.body[i][f] = w[f][1]
                  ELSE resp.body[i][f] \in BaseVals(p, f)

\* a once edit with time_start "" and room null over a tier below that has
\* both: the answer keeps both and takes the edit's subject
WitC2_EmptyStringKeeps ==
  /\ Answered
  /\ \E p \in MergedPairs : \E o \in OnceAt(p) : \E i \in SessionsAt(p) :
       /\ ~o.deleted
       /\ o.time_start = Some(<<>>) /\ IsNull(o.room) /\ Truthy(o.subject)
       /\ resp.body[i].time_start # <<>> /\ resp.body[i].room # <<>>
       /\ resp.body[i].subject = o.subject[1]

\* C3: when the last edit applied at a pair number is deleted, the answer still
\* has the session, with subject, teacher and room empty; time_start and
\* time_end are the edit's when it supplies them non-empty and those of the tier
\* below otherwise.
ThmC3_DeletedKeepsSlot ==
  Answered =>
    \A p \in MergedPairs :
      /\ \A o \in OnceAt(p) :
           o.deleted =>
             /\ SessionsAt(p) # {}
             /\ \A i \in SessionsAt(p) :
                  /\ \A f \in TextFields : resp.body[i][f] = <<>>
                  /\ \A f \in TimeFields :
                       IF Truthy(o[f]) THEN resp.body[i][f] = o[f][1]
                       ELSE resp.body[i][f] \in PriorVals(p, f)
      /\ \A w \in WeeklyAt(p) :
           (OnceAt(p) = {} /\ WeeklyAt(p) = {w} /\ w.deleted) =>
             /\ SessionsAt(p) # {}
             /\ \A i \in SessionsAt(p) :
                  /\ \A f \in TextFields : resp.body[i][f] = <<>>
                  /\ \A f \in TimeFields :
                       IF Truthy(w[f]) THEN resp.body[i][f] = w[f][1]
                       ELSE resp.body[i][f] \in BaseVals(p, f)

\* a deleted once edit without times over a session that had a subject and
\* times: the answer has the session, blank, with the times kept
WitC3_DeletedOverFilled ==
  /\ Answered
  /\ \E p \in MergedPairs : \E o \in OnceAt(p) : \E i \in SessionsAt(p) :
       /\ o.deleted /\ ~Truthy(o.time_start) /\ ~Truthy(o.time_end)
       /\ <<>> \notin PriorVals(p, "subject")
       /\ resp.body[i].subject = <<>> /\ resp.body[i].teacher = <<>>
       /\ resp.body[i].room = <<>>
       /\ resp.body[i].time_start # <<>> /\ resp.body[i].time_end # <<>>

\* the one edit that applies at pair p, when p has no base row and one edit
LoneEdits(p) ==
  IF BaseAt(p) # {} THEN {}
  ELSE IF OnceAt(p) = {} /\ Cardinality(WeeklyAt(p)) = 1 THEN WeeklyAt(p)
  ELSE IF WeeklyAt(p) = {} /\ Cardinality(OnceAt(p)) = 1 THEN OnceAt(p)
  ELSE {}

\* the session synthesised at pair p carries exactly the values vals(f)
Synthesised(p, e, blanked) ==
  /\ Cardinality(SessionsAt(p)) = 1
  /\ \A i \in SessionsAt(p) :
       /\ resp.body[i].id = 0
       /\ resp.body[i].group_name = resp.group
       /\ resp.body[i].weekday = ReqWeekday
       /\ resp.body[i].week_type = "all"
       /\ \A f \in Fields :
            resp.body[i][f] =
              (IF f \in blanked THEN <<>> ELSE IF Truthy(e[f]) THEN e[f][1] ELSE <<>>)

\* C4 (as amended): one edit at a pair number without base row gives exactly one
\* session there, with id 0, the requested group and weekday, week type "all";
\* a non-deleted edit gives it its non-empty fields, a deleted edit only its
\* non-empty time_start and time_end, and every other text field is empty.
ThmC4_SynthesisedSlot ==
  Answered =>
    \A p \in MergedPairs : \A e \in LoneEdits(p) :
      Synthesised(p, e, IF e.deleted THEN TextFields ELSE {})

\* a deleted once edit with a room and an end time at a pair without base row:
\* the synthesised session has the end time and no room
WitC4_DeletedSynthesised ==
  /\ Answered
  /\ \E p \in MergedPairs : \E e \in LoneEdits(p) : \E i \in SessionsAt(p) :
       /\ e.deleted /\ Truthy(e.room) /\ Truthy(e.time_end)
       /\ resp.body[i].id = 0
       /\ resp.body[i].room = <<>>
       /\ resp.body[i].time_end = e.time_end[1]

\* C4 (original statement): the synthesised session carries the edit's non-empty
\* fields, whatever the edit.
CexC4_SynthesisedCarriesFields ==
  Answered =>
    \A p \in MergedPairs : \A e \in LoneEdits(p) : Synthesised(p, e, {})

\* C5: the answer's pair numbers are strictly increasing and all above 0.
ThmC5_StrictlyIncreasingPairs ==
  Answered =>
    /\ \A i \in DOMAIN resp.body : resp.body[i].pair_number > 0
    /\ \A i \in DOMAIN resp.body : \A j \in DOMAIN resp.body :
         i < j => resp.body[i].pair_number < resp.body[j].pair_number

\* three sessions, a synthesised one (added to the mapping after the base
\* rows) standing before a base one
WitC5_SynthesisedBetween ==
  /\ Answered
  /\ Len(resp.body) >= 3
  /\ \E i \in DOMAIN resp.body : \E j \in DOMAIN resp.body :
       i < j /\ resp.body[i].id = 0 /\ resp.body[j].id # 0

\* the base rows the request selects: the normalised names agree, the weekday
\* is the date's, the week type is "all" or the date's parity
SelectedBase ==
  {s \in weekday_schedule :
     /\ NormalizeGroup(s.group_name) = NormalizeGroup(resp.group)
     /\ s.weekday = ReqWeekday
     /\ s.week_type \in {"all", ReqParity}}

\* no weekly or once edit applies to the request
NoEditApplies == \A p \in MergedPairs : WeeklyAt(p) = {} /\ OnceAt(p) = {}

\* C16: when no edit applies, the answer has one session per selected base
\* row, with that row's values; no selected row is dropped, rows that share a
\* pair number included.
CexC16_OneSessionPerBaseRow ==
  (Answered /\ NoEditApplies) =>
    /\ Len(resp.body) = Cardinality(SelectedBase)
    /\ \A s \in SelectedBase : \E i \in DOMAIN resp.body :
         /\ resp.body[i].id = s.id
         /\ resp.body[i].pair_number = s.pair_number
         /\ resp.body[i].group_name = s.group_name
         /\ resp.body[i].week_type = s.week_type
         /\ resp.body[i].subject = Coalesce(s.subject, <<>>)
         /\ resp.body[i].teacher = Coalesce(s.teacher, <<>>)
         /\ resp.body[i].room = Coalesce(s.room, <<>>)
         /\ resp.body[i].time_start = ToCharHHMI(s.time_start)
         /\ resp.body[i].time_end = ToCharHHMI(s.time_end)

\* the rows that may influence the answer at pair p: base rows and weekly
\* edits of the date's weekday whose week type is "all" or the date's parity,
\* once edits of the date
MayInfluence(p, f) ==
  {<<>>}
  \cup {BaseSelect(s)[f] : s \in {r \in weekday_schedule :
          /\ r.pair_number = p /\ r.weekday = ReqWeekday
          /\ r.week_type \in {"all", ReqParity}}}
  \cup Supplied({e \in weekly_edits :
                   /\ e.pair_number = p /\ e.day_of_week = ReqWeekday
                   /\ e.week_type \in {"all", ReqParity}}, f)
  \cup Supplied({e \in once_edits : e.pair_number = p /\ e.edit_date = ReqOrd}, f)

OwnEdits(p) ==
  {e \in weekly_edits :
     /\ e.group_name = resp.group /\ e.pair_number = p /\ e.day_of_week = ReqWeekday
     /\ e.week_type \in {"all", ReqParity}}
  \cup {e \in once_edits :
          e.group_name = resp.group /\ e.pair_number = p /\ e.edit_date = ReqOrd}

\* C18: base rows are selected by normalised name, edits by the exact string.
\* A session at a pair number where no edit stored under exactly the requested
\* string applies is a base session (of a group whose name normalises to the
\* requested one) with the base values, whatever edits are stored under another
\* spelling; a pair number with only such foreign edits has no session.
ThmC18_EditsMatchExactGroup ==
  Answered =>
    \A i \in DOMAIN resp.body :
      LET x == resp.body[i]
      IN OwnEdits(x.pair_number) = {} =>
           /\ x.id # 0
           /\ NormalizeGroup(x.group_name) = NormalizeGroup(resp.group)
           /\ \A f \in Fields : x[f] \in BaseVals(x.pair_number, f)

\* "АВ1" is requested; the base row of pair 1 is answered with its own subject
\* although a weekly edit stored under "AB-1" names another for that slot
WitC18_ForeignEditIgnored ==
  /\ Answered /\ resp.group = G_cyr
  /\ \E e \in weekly_edits :
       /\ e.group_name = G_lat /\ e.day_of_week = ReqWeekday /\ e.pair_number = 1
       /\ e.week_type \in {"all", ReqParity} /\ e.subject = Some(S_phys)
  /\ \E i \in DOMAIN resp.body :
       /\ resp.body[i].pair_number = 1 /\ resp.body[i].subject = S_math
       /\ resp.body[i].group_name = G_cyr

\* the lists merge_by_group_date can return for group g on the date string dt
\* when only the weekly_edits query may return its rows in any order
WeeklyOrderResults(g, dt) ==
  LET d == FromIsoformat(dt)
      weekday == IsoWeekday(d)
      parity == get_schedule_parity(d, anchor).parity
  IN {[b \in FetchBase(g, weekday, parity), o \in FetchOnce(g, d) |->
         {MergeRows(g, weekday, b, w, o) : w \in FetchWeekly(g, weekday, parity)}]}

\* C22: the merged schedule does not depend on the order in which the
\* weekly_edits query returns its rows: with the base rows and the once edits
\* as returned, every order of the weekly edits gives the same list, also when
\* an "all" edit and an edit of the date's parity name the same pair number.
CexC22_WeeklyRowOrderIrrelevant ==
  \A g \in {G_lat, G_cyr} : \A dt \in {D1, D2} :
    \A f \in WeeklyOrderResults(g, dt) :
      \A k \in DOMAIN f : Cardinality(f[k]) = 1

---------------------------------------------------------------------------
(* Claims about get_schedule_by_teacher (Spec) *)

\* every group name a table holds
StoredGroups ==
  {s.group_name : s \in weekday_schedule} \cup {e.group_name : e \in weekly_edits}
    \cup {e.group_name : e \in once_edits}

\* the sessions of list m whose resolved teacher is t, case and surrounding
\* whitespace aside
OfTeacher(m, t) == {m[i] : i \in {j \in DOMAIN m : Lower(PyStrip(m[j].teacher)) = Lower(PyStrip(t))}}

\* C6: for a non-blank teacher t, the answer of scheduleForTeacher holds
\* exactly the sessions whose teacher, after the three tiers of their group are
\* merged for the date, equals t case-insensitively and surrounding whitespace
\* aside (for some order the queries may return rows in).
CexC6_PostMergeTeacherFilter ==
  (resp.op = "teacher" /\ resp.status = 200 /\ Lower(PyStrip(resp.teacher)) # <<>>) =>
    LET d == FromIsoformat(resp.date)
        merged(g) == merge_by_group_date(g, d, IsoWeekday(d),
                                         get_schedule_by_teacher_parity(d, anchor).parity)
        got == {resp.body[i] : i \in DOMAIN resp.body}
    IN /\ \A x \in got : Lower(PyStrip(x.teacher)) = Lower(PyStrip(resp.teacher))
       /\ \A g \in StoredGroups : \E m \in merged(g) : OfTeacher(m, resp.teacher) \subseteq got

\* C23: scheduleForTeacher answers each (group, pair number) slot of the date
\* at most once, also when the rows that name the teacher spell one group in
\* several ways.
CexC23_NoSlotTwice ==
  (resp.op = "teacher" /\ resp.status = 200) =>
    \A i \in DOMAIN resp.body : \A j \in DOMAIN resp.body :
      (resp.body[i].group_name = resp.body[j].group_name
         /\ resp.body[i].pair_number = resp.body[j].pair_number) => i = j

\* C24: every session scheduleForTeacher answers with group name g is, with the
\* same field values, a session of scheduleForGroup(g, date) on the same tables
\* (for some order the queries may return rows in).
CexC24_TeacherViewWithinGroupView ==
  (resp.op = "teacher" /\ resp.status = 200) =>
    LET d == FromIsoformat(resp.date)
        groupView(g) == merge_by_group_date(g, d, IsoWeekday(d),
                                            get_schedule_parity(d, anchor).parity)
    IN \A i \in DOMAIN resp.body :
         \E m \in groupView(resp.body[i].group_name) :
           \E j \in DOMAIN m : m[j] = resp.body[i]

---------------------------------------------------------------------------
(* Claims about the edit mutations, one request after the other (Spec) *)

OnceKey(e) == <<e.group_name, e.edit_date, e.pair_number>>
WeeklyKey(e) == <<e.group_name, e.day_of_week, e.pair_number, e.week_type>>

\* no two rows of an edit table share their identity key
UniqueKeys ==
  /\ \A e1 \in once_edits : \A e2 \in once_edits : OnceKey(e1) = OnceKey(e2) => e1 = e2
  /\ \A e1 \in weekly_edits : \A e2 \in weekly_edits :
       WeeklyKey(e1) = WeeklyKey(e2) => e1 = e2

EditFields == {"subject", "teacher", "room", "time_start", "time_end", "deleted"}

\* an accepted POST /api/edits/once leaves, at the body's key, one row with
\* exactly the body's fields, and every row at another key as it was
OnceUpserted(body) ==
  LET k == <<body.group, FromIsoformat(body.date), body.pair>>
  IN /\ Cardinality({e \in once_edits' : OnceKey(e) = k}) = 1
     /\ \A e \in once_edits' : OnceKey(e) = k => \A f \in EditFields : e[f] = body[f]
     /\ {e \in once_edits' : OnceKey(e) # k} = {e \in once_edits : OnceKey(e) # k}

\* an accepted POST /api/edits/weekly, likewise, the key's week type being the
\* body's scope lower-cased, "all" when it is neither "even" nor "odd"
WeeklyUpserted(body) ==
  LET sc == Lower(body.scope)
      wt == IF sc = TextEven THEN "even" ELSE IF sc = TextOdd THEN "odd" ELSE "all"
      k == <<body.group, body.day_of_week, body.pair, wt>>
  IN /\ Cardinality({e \in weekly_edits' : WeeklyKey(e) = k}) = 1
     /\ \A e \in weekly_edits' : WeeklyKey(e) = k => \A f \in EditFields : e[f] = body[f]
     /\ {e \in weekly_edits' : WeeklyKey(e) # k} = {e \in weekly_edits : WeeklyKey(e) # k}

\* C12: with the requests served one after the other, each edit table holds at
\* most one row per identity key, and after an accepted upsert the row at its
\* key carries exactly the fields of that upsert: a field the replaced row had
\* and the upsert omits is gone.
ThmC12_UpsertReplaces ==
  /\ []UniqueKeys
  /\ [][/\ \A body \in OnceBodies :
             (upsert_once_edit(body) /\ resp'.status = 200) => OnceUpserted(body)
        /\ \A body \in WeeklyBodies :
             (upsert_weekly_edit(body) /\ resp'.status = 200) => WeeklyUpserted(body)]_vars

\* the weekly row of "AB-1", Monday, pair 2, "all" that named a teacher has been
\* replaced by a deleted edit that names none; the other row is as it was
WitC12_ReplacedRowLosesTeacher ==
  /\ served = 1 /\ resp.op = "upsert_weekly" /\ resp.status = 200
  /\ Cardinality(weekly_edits) = 2
  /\ WeeklyRow(G_cyr, 1, 1, "even", FirstWeeklyPayload) \in weekly_edits
  /\ \E e \in weekly_edits :
       /\ WeeklyKey(e) = <<G_lat, 1, 2, "all">>
       /\ e.deleted /\ IsNull(e.teacher) /\ e.subject = Some(S_phys)

\* C13: POST /api/edits/once with pair <= 0 or a date that does not parse, and
\* POST /api/edits/weekly with pair <= 0 or day_of_week outside 1..7, are
\* answered 400, leave both edit tables as they were and send no notification.
ThmC13_InvalidEditRejected ==
  [][/\ \A body \in OnceBodies :
          (upsert_once_edit(body) /\ (body.pair <= 0 \/ ~DateValid(body.date))) =>
            /\ resp'.status = 400
            /\ once_edits' = once_edits /\ weekly_edits' = weekly_edits
            /\ notice'.kind = "none"
     /\ \A body \in WeeklyBodies :
          (upsert_weekly_edit(body)
             /\ (body.pair <= 0 \/ body.day_of_week < 1 \/ body.day_of_week > 7)) =>
            /\ resp'.status = 400
            /\ once_edits' = once_edits /\ weekly_edits' = weekly_edits
            /\ notice'.kind = "none"]_vars

\* a once upsert for a well-formed date was refused while both tables held rows
WitC13_RefusedOnFilledTables ==
  /\ resp.op = "upsert_once" /\ resp.status = 400 /\ DateValid(resp.date)
  /\ notice.kind = "none"
  /\ once_edits # {} /\ weekly_edits # {}

\* C14: an accepted DELETE /api/edits/once removes every once edit whose group
\* name is exactly the group and whose date is the date, at any pair number,
\* and leaves every other once edit, every weekly edit and every base row.
ThmC14_DeleteOnceForDayFrame ==
  [][(resp'.op = "delete_once" /\ resp'.status = 200) =>
       LET d == FromIsoformat(resp'.date)
           hit(e) == e.group_name = resp'.group /\ e.edit_date = d
       IN /\ \A e \in once_edits' : ~hit(e)
          /\ once_edits' \subseteq once_edits
          /\ \A e \in once_edits : ~hit(e) => e \in once_edits'
          /\ weekly_edits' = weekly_edits
          /\ weekday_schedule' = weekday_schedule]_vars

\* the once edit of "АВ1" on 2024-01-01 at pair 2 has been deleted; the edit of
\* "AB-1" (the same name once normalised) on another date is still there
WitC14_OtherGroupKept ==
  /\ served = 1 /\ resp.op = "delete_once" /\ resp.status = 200 /\ resp.group = G_cyr
  /\ once_edits = {OnceRow(G_lat, FromIsoformat(D2), 1, FirstOncePayload)}

---------------------------------------------------------------------------
(* Claims about week_overview (Spec) *)

\* the last request was GET /api/week_overview and was answered with a list
Overviewed == resp.op = "week_overview" /\ resp.status = 200

\* C11: week_overview answers with exactly 7 entries, the i-th (from 0) dated
\* i days after the start, in that order; in group mode the count of an entry
\* is the length of the list GET /api/schedule merges for that group on that
\* entry's date, with that date's own weekday and parity.
ThmC11_OverviewSevenDays ==
  Overviewed =>
    /\ Len(resp.body) = 7
    /\ \A i \in 1..7 :
         /\ DateValid(resp.body[i].date)
         /\ FromIsoformat(resp.body[i].date) = FromIsoformat(resp.date) + (i - 1)
         /\ Truthy(resp.group) =>
              LET d == FromIsoformat(resp.date) + (i - 1)
              IN resp.body[i].count \in
                   {Len(m) : m \in merge_by_group_date(resp.group[1], d, IsoWeekday(d),
                                                       get_schedule_parity(d, anchor).parity)}

\* a group overview that starts on Wednesday 2024-01-03: nothing on its first
\* day, sessions on Monday 2024-01-08, its sixth
WitC11_StartsMidweek ==
  /\ Overviewed /\ Truthy(resp.group)
  /\ resp.date = D3
  /\ resp.body[1].date = D3 /\ resp.body[1].count = 0
  /\ resp.body[6].date = D2 /\ resp.body[6].count > 0
  /\ resp.body[7].date = <<2024, 1, 9>>

\* C19: in teacher mode every count of week_overview is the number of sessions
\* GET /api/schedule_by_teacher returns for the same teacher name and that
\* day, names that are blank once trimmed or carry whitespace included.
CexC19_OverviewCountsTeacherSchedule ==
  (Overviewed /\ Truthy(resp.teacher)) =>
    \A i \in 1..7 :
      resp.body[i].count \in
        {Len(b) : b \in ScheduleByTeacherBodies(resp.teacher[1],
                                                FromIsoformat(resp.date) + (i - 1))}

---------------------------------------------------------------------------
(* Claims about overlapping edit requests and their notifications (SpecTxn) *)

Committed(w) == \E i \in DOMAIN commits : commits[i] = w

\* the rows worker w inserted are in its table
RowOf(w) ==
  IF txn[w].req.op = "upsert_once" THEN {e \in once_edits : e.id = w}
  ELSE {e \in weekly_edits : e.id = w}

\* C15: tg_send is called only for a request whose write has committed; the call
\* changes neither edit table, whatever its outcome, and a request whose
\* notification failed is still answered 200; a refused or rolled-back request
\* sends nothing.
ThmC15_NotifyAfterCommit ==
  /\ [](\A w \in Workers :
          /\ txn[w].tg # "none" => Committed(w)
          /\ txn[w].pc = "done" =>
               (IF txn[w].tg # "none" THEN txn[w].status = 200
                ELSE txn[w].status \in {400, 500} /\ ~Committed(w)))
  /\ [][(\E w \in Workers : txn'[w].tg # txn[w].tg) =>
          (once_edits' = once_edits /\ weekly_edits' = weekly_edits)]_vars

\* a once upsert whose notification failed: answered 200, its row stored
WitC15_FailedNotificationKeepsRow ==
  \E w \in Workers :
    /\ txn[w].req.op = "upsert_once"
    /\ txn[w].pc = "done" /\ txn[w].tg = "failed" /\ txn[w].status = 200
    /\ RowOf(w) # {}

\* the key of an upsert request
TxnKey(req) ==
  IF req.op = "upsert_once"
  THEN <<"once", req.body.group, req.body.date, req.body.pair>>
  ELSE <<"weekly", req.body.group, req.body.day_of_week, req.body.pair,
         ScopeOf(req.body.scope)>>

\* C20: once two upserts to the same key have both committed, the table holds
\* exactly one row at that key: the row of the transaction that committed last.
CexC20_LastCommitWins ==
  \A w1 \in Workers : \A w2 \in Workers \ {w1} :
    (/\ Committed(w1) /\ Committed(w2)
     /\ txn[w1].req.op \in {"upsert_once", "upsert_weekly"}
     /\ txn[w1].req.op = txn[w2].req.op
     /\ TxnKey(txn[w1].req) = TxnKey(txn[w2].req)) =>
      LET last == commits[Len(commits)]
      IN /\ Cardinality(TxnTargets(txn[last].req)) = 1
         /\ TxnTargets(txn[last].req) = RowOf(last)

---------------------------------------------------------------------------
(* Claims about a read among committing edits (SpecRead) *)

\* the call has returned a schedule
ReadDone == rd.pc = "done" /\ rd.status = 200

\* the lists the merge of call r can give on the edit table contents s, the
\* three queries seeing the same instant
SnapshotMerges(s, r) ==
  {MergeRows(r.group, r.weekday, b, w, o) :
     b \in FetchBase(r.group, r.weekday, r.parity),
     w \in WeeklyRowsOf(s.weekly, r.group, r.weekday, r.parity),
     o \in OnceRowsOf(s.once, r.group, r.d)}

\* C21: mergeForGroupDate reads the tiers in separate steps with no shared
\* snapshot: the returned list is the merge of the base rows, of the weekly
\* edits as committed when the weekly query ran, and of the once edits as
\* committed when the once query ran.
ThmC21_EachQueryItsOwnInstant ==
  ReadDone =>
    rd.result \in SnapshotMerges([weekly |-> rd.weekly_at, once |-> rd.once_at], rd)

\* a returned schedule that is the merge of no table contents that existed
\* between the call and its return: it has a once edit committed after the
\* weekly query ran, and lacks a weekly edit committed before that once edit
WitC21_MergeOfNoInstant ==
  /\ ReadDone
  /\ \A s \in rd.seen : rd.result \notin SnapshotMerges(s, rd)
  /\ rd.once_at # rd.start.once
  /\ rd.weekly_at = rd.start.weekly
  /\ \A s \in rd.seen : s.once = rd.once_at => s.weekly # rd.weekly_at

---------------------------------------------------------------------------
(* Claims about the identity normaliser (SpecNorm) *)

AsciiDigits == 48..57
LatinLower == 97..122
CyrillicLower == (1072..1103) \cup {1105}

\* a character whose lower-case form is an ASCII digit, a Latin letter a-z or a
\* Cyrillic letter а-я, ё
IsDigitOrLetter(c) ==
  c \in AsciiDigits \cup (65..90) \cup LatinLower \cup (1040..1071) \cup CyrillicLower
        \cup {1025, 8490}

\* C9 (as amended): a normalised name holds only ASCII digits, lower-case Latin
\* letters a-z and lower-case Cyrillic letters а-я, ё; exactly the characters
\* that are no digit and no such letter are deleted, so a Latin letter that is
\* not a look-alike is kept, lower-cased.
ThmC9_NormalizedAlphabet ==
  nout.stage # "none" =>
    /\ \A i \in DOMAIN nout.val :
         nout.val[i] \in AsciiDigits \cup LatinLower \cup CyrillicLower
    /\ Len(nout.val) = Cardinality({i \in DOMAIN nout.arg : IsDigitOrLetter(nout.arg[i])})

\* "I-1" normalises to "i1": the hyphen is deleted, the Latin I is kept.
WitC9_LatinKept ==
  nout.stage = "once" /\ nout.arg = <<73, 45, 49>> /\ nout.val = <<105, 49>>

\* C9 (original statement): a normalised name holds only ASCII digits and
\* lower-case Cyrillic letters.
CexC9_OnlyDigitsAndCyrillic ==
  nout.stage # "none" =>
    \A i \in DOMAIN nout.val : nout.val[i] \in AsciiDigits \cup CyrillicLower

\* C10: normalising a normalised name gives the same name.
CexC10_Idempotent ==
  nout.stage = "twice" => nout.val = nout.arg

---------------------------------------------------------------------------
(* Claims about week parity (SpecParity) *)

AnchorParsed == Truthy(panchor) /\ DateValid(panchor[1])

\* the parity the place pres.site computes for date d under the configured anchor
ParityAt(site, d) ==
  IF site = "get_schedule" THEN get_schedule_parity(d, panchor)
  ELSE IF site = "get_schedule_by_teacher" THEN get_schedule_by_teacher_parity(d, panchor)
  ELSE IF site = "week_overview" THEN week_overview_parity(d, panchor)
  ELSE parity_for(d, panchor)

WeekOffsets == -400..400

\* C7: with a valid anchor the parity is "odd" when the whole number k of weeks
\* with anchor + 7k <= date < anchor + 7k + 7 is even and "even" otherwise, before
\* and after the anchor; the anchor's own 7 days are odd and the parity of the
\* date 7 days later differs.
ThmC7_AnchorParity ==
  (pres.status = "ok" /\ AnchorParsed) =>
    LET a == FromIsoformat(panchor[1])
    IN /\ \E k \in WeekOffsets :
            /\ a + 7 * k <= pres.ord /\ pres.ord < a + 7 * k + 7
            /\ pres.parity = (IF k % 2 = 0 THEN "odd" ELSE "even")
       /\ (a <= pres.ord /\ pres.ord < a + 7) => pres.parity = "odd"
       /\ ParityAt(pres.site, pres.ord + 7).parity # pres.parity

\* a date before the anchor, in the week just before it, resolved as even
WitC7_BeforeAnchor ==
  /\ pres.status = "ok" /\ AnchorParsed
  /\ pres.ord < FromIsoformat(panchor[1])
  /\ pres.ord >= FromIsoformat(panchor[1]) - 7
  /\ pres.parity = "even"

\* C8: with no anchor or an unparsable one, every place that computes the parity
\* returns the ISO week parity and never fails.
CexC8_FallbackEverywhere ==
  (pres.site # "none" /\ pres.status # "400" /\ ~AnchorParsed) =>
    /\ pres.status = "ok"
    /\ pres.parity = (IF IsoWeek(pres.ord) % 2 = 0 THEN "even" ELSE "odd")

====
